---- MODULE Spec2Model ----
(***************************************************************************)
(* Model of the NEG syncer skeleton, pkg/neg/syncers/syncer.go.            *)
(*                                                                         *)
(* One syncer object is shared by a set of caller threads (Procs) that     *)
(* call Start(), Stop() and Sync(), and by the loop goroutines spawned by   *)
(* Start().  Every atomic step of the model is one critical section of     *)
(* stateLock or one channel operation of the source; the steps of one      *)
(* call are separate actions, so that other threads interleave exactly     *)
(* where the source releases the lock.                                     *)
(***************************************************************************)
EXTENDS Integers, FiniteSets, Sequences, TLC

\* ---- bounds of the model ----
NumCallers == 2      \* concurrent caller threads
MaxStarts == 2       \* Start() calls that get past their first check
MaxSyncCalls == 2    \* Sync() calls that get past their IsStopped() check
MaxParamRetries == 3 \* largest retry limit of a backoff handler checked on its own
MaxParamDelay == 5   \* largest delay limit of a backoff handler checked on its own

\* ---- backoff: the retry limit handed to the backoff handler by newSyncer
\* (syncer.go:66), taken small here ----
maxRetries == 1
MaxFailures == maxRetries + 1   \* failing syncFunc calls in one behaviour

\* ---- backoff: the delay limits handed to the backoff handler by newSyncer
\* (syncer.go:66), in seconds, taken small here ----
minRetryDelay == 1
maxRetryDelay == 3

Procs == 1..NumCallers
ChanIds == 1..MaxStarts         \* the k-th init() makes channel k and loop k
NoChan == 0                     \* the nil channel of newSyncer

VARIABLES
    stopped,        \* syncer.stopped
    shuttingDown,   \* syncer.shuttingDown
    syncCh,         \* syncer.syncCh: NoChan, or the id of the latest channel made
    chBuf,          \* chBuf[c]: number of values buffered in channel c (capacity 1)
    chClosed,       \* chClosed[c]: channel c has been closed
    loops,          \* loops[l]: the goroutine spawned by the l-th init()
    pc,             \* pc[p]: where caller p is inside Start() or Sync()
    seen,           \* seen[p]: s.syncCh as of caller p's last lock acquisition
    last,           \* result of the last step that returned to a caller
    backoff,        \* s.backoff: the backoff handler (parameters and attempt count)
    panicked,       \* the program aborted (send on / close of a closed channel)
    nInvocations,   \* history: calls of s.syncFunc begun
    nSyncCalls,     \* history: Sync() calls that found the syncer running
    nRetryFired,    \* history: wake-ups of a loop by its retry timer
    nFailures,      \* history: syncFunc calls that returned an error
    nArmed,         \* history: retry timers armed by the loop (line 91)
    owed            \* history, kept only by a specification that starts
                    \* with it at "no": "yes" when a Sync() has returned true
                    \* and no call of s.syncFunc has begun since

vars == <<stopped, shuttingDown, syncCh, chBuf, chClosed, loops, pc, seen, last,
          backoff, panicked, nInvocations, nSyncCalls, nRetryFired, nFailures,
          nArmed, owed>>

hist == <<nInvocations, nSyncCalls, nRetryFired, nFailures, nArmed, owed>>

\* A loop goroutine: its position, the channel its select waits on, whether
\* retryCh is an armed timer, and the locals of its current iteration
\* (err != nil, retryErr == ErrRetriesExceeded, retryMesg, svc != nil,
\* whether s.recorder.Eventf was called), which are dead once the select
\* has chosen a case.
NoLoop == [pc |-> "none", ch |-> NoChan, retry |-> FALSE,
           err |-> FALSE, exh |-> FALSE, msg |-> "", svc |-> FALSE, ev |-> FALSE]

\* The loop record with the locals of the finished iteration forgotten.
EndIteration(r) == [NoLoop EXCEPT !.pc = "call", !.ch = r.ch, !.retry = r.retry]

\* ---------------------------------------------------------------------
\* Backoff policy used by the loop (interface backoffHandler).  A handler
\* is its three parameters, its attempt count, and the outcome of its
\* latest NextRetryDelay() call: the delay returned (0 if none since the
\* last reset) and whether exhaustion was reported.
\* ---------------------------------------------------------------------

\* NewExponentialBackendOffHandler(maxRetries, minRetryDelay, maxRetryDelay).
NewBackoff(maxR, minD, maxD) ==
    [maxRetries |-> maxR, minDelay |-> minD, maxDelay |-> maxD,
     count |-> 0, delay |-> 0, exceeded |-> FALSE]

\* The delay of attempt number n (n = 0 for the first): it starts at the
\* minimum delay, doubles with every attempt and is clamped to the maximum.
RetryDelay(b, n) ==
    IF b.minDelay * 2^n > b.maxDelay THEN b.maxDelay ELSE b.minDelay * 2^n

\* A NextRetryDelay() that does not clamp the delay to the maximum.
NextRetryDelayNoClamp(b) ==
    IF b.count >= b.maxRetries
      THEN [b EXCEPT !.exceeded = TRUE]
      ELSE [b EXCEPT !.count = b.count + 1,
                     !.delay = b.minDelay * 2^b.count,
                     !.exceeded = FALSE]

\* NextRetryDelay(): once the attempt count has reached the maximum retry
\* count it reports ErrRetriesExceeded and does not advance; otherwise it
\* advances the count and returns the delay of this attempt.
NextRetryDelay(b) ==
    IF b.count >= b.maxRetries
      THEN [b EXCEPT !.exceeded = TRUE]
      ELSE [b EXCEPT !.count = b.count + 1,
                     !.delay = RetryDelay(b, b.count),
                     !.exceeded = FALSE]

\* ResetRetryDelay(): the attempt count is 0 again.
ResetRetryDelay(b) == [b EXCEPT !.count = 0, !.delay = 0, !.exceeded = FALSE]

\* The attempt count of the syncer's backoff handler.
retryCount == backoff.count

\* newSyncer with backoff handler b: stopped=true, shuttingDown=false,
\* syncCh nil.
NewSyncer(b) ==
    /\ stopped = TRUE
    /\ shuttingDown = FALSE
    /\ syncCh = NoChan
    /\ chBuf = [c \in ChanIds |-> 0]
    /\ chClosed = [c \in ChanIds |-> FALSE]
    /\ loops = [l \in ChanIds |-> NoLoop]
    /\ pc = [p \in Procs |-> "idle"]
    /\ seen = [p \in Procs |-> NoChan]
    /\ last = <<"none", "none">>
    /\ backoff = b
    /\ panicked = FALSE
    /\ nInvocations = 0
    /\ nSyncCalls = 0
    /\ nRetryFired = 0
    /\ nFailures = 0
    /\ nArmed = 0

\* newSyncer, line 66: the handler is made from the package's parameters.
Init ==
    /\ NewSyncer(NewBackoff(maxRetries, minRetryDelay, maxRetryDelay))
    /\ owed = "untracked"

\* The same syncer, with the history of enqueued signals switched on.
SignalInit ==
    /\ NewSyncer(NewBackoff(maxRetries, minRetryDelay, maxRetryDelay))
    /\ owed = "no"

\* s.IsStopped() and s.IsShuttingDown(): reads under stateLock.
IsStopped == stopped
IsShuttingDown == shuttingDown

\* Callers that are between the first check of Start() and its init().
StartsInFlight == {p \in Procs : pc[p] \in {"StartShut", "StartInit"}}

\* ---------------------------------------------------------------------
\* Start(), lines 70-117.  Three critical sections: IsStopped(),
\* IsShuttingDown(), init(); the go statement follows init() and touches
\* no shared state, so the new goroutine appears in the init() step.
\* ---------------------------------------------------------------------

\* Lines 71-73: if !s.IsStopped() { return error "already running" }.
StartIsStopped(p) ==
    /\ ~panicked
    /\ pc[p] = "idle"
    /\ IF ~IsStopped
         THEN /\ last' = <<"Start", "errRunning">>
              /\ pc' = pc
         ELSE /\ syncCh + Cardinality(StartsInFlight) < MaxStarts
              /\ pc' = [pc EXCEPT ![p] = "StartShut"]
              /\ last' = last
    /\ UNCHANGED <<stopped, shuttingDown, syncCh, chBuf, chClosed, loops, seen,
                   backoff, panicked, hist>>

\* Lines 74-76: if s.IsShuttingDown() { return error "shutting down" }.
StartIsShuttingDown(p) ==
    /\ ~panicked
    /\ pc[p] = "StartShut"
    /\ IF IsShuttingDown
         THEN /\ last' = <<"Start", "errShuttingDown">>
              /\ pc' = [pc EXCEPT ![p] = "idle"]
         ELSE /\ pc' = [pc EXCEPT ![p] = "StartInit"]
              /\ last' = last
    /\ UNCHANGED <<stopped, shuttingDown, syncCh, chBuf, chClosed, loops, seen,
                   backoff, panicked, hist>>

\* A Start() that also gives the syncer a fresh backoff state.
StartInitResetsBackoff(p) ==
    /\ ~panicked
    /\ pc[p] = "StartInit"
    /\ stopped' = FALSE
    /\ syncCh' = syncCh + 1
    /\ loops' = [loops EXCEPT ![syncCh + 1] =
                     [NoLoop EXCEPT !.pc = "call", !.ch = syncCh + 1]]
    /\ pc' = [pc EXCEPT ![p] = "idle"]
    /\ last' = <<"Start", "ok">>
    /\ backoff' = ResetRetryDelay(backoff)
    /\ UNCHANGED <<shuttingDown, chBuf, chClosed, seen, panicked, hist>>

\* Lines 119-124 and 80, 116: init() sets stopped=false and makes a fresh
\* capacity-1 channel; Start() then spawns the loop and returns nil.
StartInit(p) ==
    /\ ~panicked
    /\ pc[p] = "StartInit"
    /\ stopped' = FALSE
    /\ syncCh' = syncCh + 1
    /\ loops' = [loops EXCEPT ![syncCh + 1] =
                     [NoLoop EXCEPT !.pc = "call", !.ch = syncCh + 1]]
    /\ pc' = [pc EXCEPT ![p] = "idle"]
    /\ last' = <<"Start", "ok">>
    /\ UNCHANGED <<shuttingDown, chBuf, chClosed, seen, backoff, panicked, hist>>

\* ---------------------------------------------------------------------
\* Stop(), lines 126-135: one critical section.
\* ---------------------------------------------------------------------
\* Stop() that closes the channel but leaves the stopped flag clear.
StopLeavesRunning(p) ==
    /\ ~panicked
    /\ pc[p] = "idle"
    /\ IF ~stopped
         THEN /\ stopped' = stopped
              /\ shuttingDown' = TRUE
              /\ IF syncCh = NoChan \/ chClosed[syncCh]
                   THEN \* close of a nil or closed channel panics
                        /\ panicked' = TRUE
                        /\ chClosed' = chClosed
                   ELSE /\ chClosed' = [chClosed EXCEPT ![syncCh] = TRUE]
                        /\ panicked' = panicked
              /\ last' = <<"Stop", "closed">>
         ELSE /\ last' = <<"Stop", "noop">>
              /\ UNCHANGED <<stopped, shuttingDown, chClosed, panicked>>
    /\ UNCHANGED <<syncCh, chBuf, loops, pc, seen, backoff, hist>>

\* Stop() without its "if !s.stopped" guard.
StopUnguarded(p) ==
    /\ ~panicked
    /\ pc[p] = "idle"
    /\ stopped' = TRUE
    /\ shuttingDown' = TRUE
    /\ IF syncCh = NoChan \/ chClosed[syncCh]
         THEN /\ panicked' = TRUE
              /\ chClosed' = chClosed
         ELSE /\ chClosed' = [chClosed EXCEPT ![syncCh] = TRUE]
              /\ panicked' = panicked
    /\ last' = <<"Stop", "closed">>
    /\ UNCHANGED <<syncCh, chBuf, loops, pc, seen, backoff, hist>>

Stop(p) ==
    /\ ~panicked
    /\ pc[p] = "idle"
    /\ IF ~stopped
         THEN /\ stopped' = TRUE
              /\ shuttingDown' = TRUE
              /\ IF syncCh = NoChan \/ chClosed[syncCh]
                   THEN \* close of a nil or closed channel panics
                        /\ panicked' = TRUE
                        /\ chClosed' = chClosed
                   ELSE /\ chClosed' = [chClosed EXCEPT ![syncCh] = TRUE]
                        /\ panicked' = panicked
              /\ last' = <<"Stop", "closed">>
         ELSE /\ last' = <<"Stop", "noop">>
              /\ UNCHANGED <<stopped, shuttingDown, chClosed, panicked>>
    /\ UNCHANGED <<syncCh, chBuf, loops, pc, seen, backoff, hist>>

\* ---------------------------------------------------------------------
\* Sync(), lines 137-148: IsStopped() under the lock, then a non-blocking
\* send on s.syncCh outside the lock.
\* ---------------------------------------------------------------------

\* Sync() that tests the channel for nil instead of the stopped flag.
SyncIsStoppedNilCheck(p) ==
    /\ ~panicked
    /\ pc[p] = "idle"
    /\ IF syncCh = NoChan
         THEN /\ last' = <<"Sync", "false">>
              /\ UNCHANGED <<pc, seen, nSyncCalls>>
         ELSE /\ nSyncCalls < MaxSyncCalls
              /\ pc' = [pc EXCEPT ![p] = "SyncSend"]
              /\ seen' = [seen EXCEPT ![p] = syncCh]
              /\ nSyncCalls' = nSyncCalls + 1
              /\ last' = last
    /\ UNCHANGED <<stopped, shuttingDown, syncCh, chBuf, chClosed, loops,
                   backoff, panicked, nInvocations, nRetryFired, nFailures, nArmed, owed>>

\* Lines 138-141.
SyncIsStopped(p) ==
    /\ ~panicked
    /\ pc[p] = "idle"
    /\ IF IsStopped
         THEN /\ last' = <<"Sync", "false">>
              /\ UNCHANGED <<pc, seen, nSyncCalls>>
         ELSE /\ nSyncCalls < MaxSyncCalls
              /\ pc' = [pc EXCEPT ![p] = "SyncSend"]
              /\ seen' = [seen EXCEPT ![p] = syncCh]
              /\ nSyncCalls' = nSyncCalls + 1
              /\ last' = last
    /\ UNCHANGED <<stopped, shuttingDown, syncCh, chBuf, chClosed, loops,
                   backoff, panicked, nInvocations, nRetryFired, nFailures, nArmed, owed>>

\* Sync() whose send reports success although a signal is already pending.
SyncSendAlwaysTrue(p) ==
    /\ ~panicked
    /\ pc[p] = "SyncSend"
    /\ \E c \in seen[p]..syncCh :
         IF chClosed[c]
           THEN /\ panicked' = TRUE
                /\ last' = <<"Sync", "panic">>
                /\ chBuf' = chBuf
           ELSE /\ panicked' = panicked
                /\ chBuf' = [chBuf EXCEPT ![c] = 1]
                /\ last' = <<"Sync", "true">>
    /\ pc' = [pc EXCEPT ![p] = "idle"]
    /\ seen' = [seen EXCEPT ![p] = NoChan]
    /\ owed' = IF owed # "untracked" /\ last' = <<"Sync", "true">> THEN "yes" ELSE owed
    /\ UNCHANGED <<stopped, shuttingDown, syncCh, chClosed, loops, backoff,
                   nInvocations, nSyncCalls, nRetryFired, nFailures, nArmed>>

\* Lines 142-147: select { case s.syncCh <- struct{}{}: true; default: false }.
\* s.syncCh is read without the lock: the read yields the channel current
\* at the caller's IsStopped() or any channel installed since.
SyncSend(p) ==
    /\ ~panicked
    /\ pc[p] = "SyncSend"
    /\ \E c \in seen[p]..syncCh :
         IF chClosed[c]
           THEN \* send on a closed channel panics
                /\ panicked' = TRUE
                /\ last' = <<"Sync", "panic">>
                /\ chBuf' = chBuf
           ELSE /\ panicked' = panicked
                /\ IF chBuf[c] = 0
                     THEN /\ chBuf' = [chBuf EXCEPT ![c] = 1]
                          /\ last' = <<"Sync", "true">>
                     ELSE /\ chBuf' = chBuf
                          /\ last' = <<"Sync", "false">>
    /\ pc' = [pc EXCEPT ![p] = "idle"]
    /\ seen' = [seen EXCEPT ![p] = NoChan]
    /\ owed' = IF owed # "untracked" /\ last' = <<"Sync", "true">> THEN "yes" ELSE owed
    /\ UNCHANGED <<stopped, shuttingDown, syncCh, chClosed, loops, backoff,
                   nInvocations, nSyncCalls, nRetryFired, nFailures, nArmed>>

\* ---------------------------------------------------------------------
\* The loop goroutine of Start(), lines 80-115.
\* ---------------------------------------------------------------------

\* A loop whose retryCh is not replaced at the top of the iteration.
LoopCallSyncKeepTimer(l) ==
    /\ ~panicked
    /\ loops[l].pc = "call"
    /\ loops' = [loops EXCEPT ![l] = [NoLoop EXCEPT !.pc = "insync", !.ch = loops[l].ch,
                                       !.retry = loops[l].retry]]
    /\ nInvocations' = nInvocations + 1
    /\ owed' = IF owed = "untracked" THEN owed ELSE "no"
    /\ UNCHANGED <<stopped, shuttingDown, syncCh, chBuf, chClosed, pc, seen, last,
                   backoff, panicked, nSyncCalls, nRetryFired, nFailures, nArmed>>

\* Lines 81-84: a new iteration; retryCh := never-firing channel; then
\* s.syncFunc() is called.
LoopCallSync(l) ==
    /\ ~panicked
    /\ loops[l].pc = "call"
    /\ loops' = [loops EXCEPT ![l] = [NoLoop EXCEPT !.pc = "insync", !.ch = loops[l].ch]]
    /\ nInvocations' = nInvocations + 1
    /\ owed' = IF owed = "untracked" THEN owed ELSE "no"
    /\ UNCHANGED <<stopped, shuttingDown, syncCh, chBuf, chClosed, pc, seen, last,
                   backoff, panicked, nSyncCalls, nRetryFired, nFailures, nArmed>>

\* A loop that records the warning event without looking at the lookup result.
LoopSyncReturnEventAlways(l, ok) ==
    /\ ~panicked
    /\ loops[l].pc = "insync"
    /\ IF ok
         THEN /\ backoff' = ResetRetryDelay(backoff)
              /\ loops' = [loops EXCEPT ![l].pc = "select"]
              /\ UNCHANGED <<nFailures, nArmed>>
         ELSE /\ nFailures < MaxFailures
              /\ nFailures' = nFailures + 1
              /\ backoff' = NextRetryDelay(backoff)
              /\ nArmed' = IF backoff'.exceeded THEN nArmed ELSE nArmed + 1
              /\ \E found \in BOOLEAN :
                   /\ loops' = [loops EXCEPT ![l] =
                          [pc |-> "select", ch |-> loops[l].ch,
                           retry |-> ~backoff'.exceeded,
                           err |-> TRUE,
                           exh |-> backoff'.exceeded,
                           msg |-> IF backoff'.exceeded
                                     THEN "(will not retry)" ELSE "(will retry)",
                           svc |-> found,
                           ev |-> TRUE]]
    /\ UNCHANGED <<stopped, shuttingDown, syncCh, chBuf, chClosed, pc, seen, last,
                   panicked, nInvocations, nSyncCalls, nRetryFired, owed>>

\* A loop that arms the retry timer even when the retries are exhausted.
LoopSyncReturnAlwaysArm(l, ok) ==
    /\ ~panicked
    /\ loops[l].pc = "insync"
    /\ IF ok
         THEN /\ backoff' = ResetRetryDelay(backoff)
              /\ loops' = [loops EXCEPT ![l].pc = "select"]
              /\ UNCHANGED <<nFailures, nArmed>>
         ELSE /\ nFailures < MaxFailures
              /\ nFailures' = nFailures + 1
              /\ backoff' = NextRetryDelay(backoff)
              /\ nArmed' = nArmed + 1
              /\ \E found \in BOOLEAN :
                   /\ loops' = [loops EXCEPT ![l] =
                          [pc |-> "select", ch |-> loops[l].ch,
                           retry |-> TRUE,
                           err |-> TRUE,
                           exh |-> backoff'.exceeded,
                           msg |-> IF backoff'.exceeded
                                     THEN "(will not retry)" ELSE "(will retry)",
                           svc |-> found,
                           ev |-> found]]
    /\ UNCHANGED <<stopped, shuttingDown, syncCh, chBuf, chClosed, pc, seen, last,
                   panicked, nInvocations, nSyncCalls, nRetryFired, owed>>

\* Lines 84-100: s.syncFunc() returns.  On an error the backoff is asked for
\* the next delay; the retry timer is armed unless the retries are
\* exhausted; the service is looked up and, if found, a warning event with
\* the retry message is recorded.  On success the backoff is reset.  Only
\* the call on the backoff touches state shared with other goroutines;
\* the loop is then about to enter its select.
LoopSyncReturn(l, ok) ==
    /\ ~panicked
    /\ loops[l].pc = "insync"
    /\ IF ok
         THEN /\ backoff' = ResetRetryDelay(backoff)
              /\ loops' = [loops EXCEPT ![l].pc = "select"]
              /\ UNCHANGED <<nFailures, nArmed>>
         ELSE /\ nFailures < MaxFailures
              /\ nFailures' = nFailures + 1
              /\ backoff' = NextRetryDelay(backoff)
              /\ nArmed' = IF backoff'.exceeded THEN nArmed ELSE nArmed + 1
              /\ \E found \in BOOLEAN :
                   /\ loops' = [loops EXCEPT ![l] =
                          [pc |-> "select", ch |-> loops[l].ch,
                           retry |-> ~backoff'.exceeded,
                           err |-> TRUE,
                           exh |-> backoff'.exceeded,
                           msg |-> IF backoff'.exceeded
                                     THEN "(will not retry)" ELSE "(will retry)",
                           svc |-> found,
                           ev |-> found]]
    /\ UNCHANGED <<stopped, shuttingDown, syncCh, chBuf, chClosed, pc, seen, last,
                   panicked, nInvocations, nSyncCalls, nRetryFired, owed>>

\* Lines 102-103: the loop enters its select, which evaluates s.syncCh
\* once.  The read is a step of its own, after the call on the backoff,
\* and is not under the lock: it yields the channel the loop last knew or
\* any channel installed since.
LoopSelect(l) ==
    /\ ~panicked
    /\ loops[l].pc = "select"
    /\ \E c \in loops[l].ch..syncCh :
         loops' = [loops EXCEPT ![l].pc = "wait", ![l].ch = c]
    /\ UNCHANGED <<stopped, shuttingDown, syncCh, chBuf, chClosed, pc, seen, last,
                   backoff, panicked, hist>>

\* A loop that wakes on a pending signal without taking it off the channel.
LoopWakeSignalKeep(l) ==
    /\ ~panicked
    /\ loops[l].pc = "wait"
    /\ chBuf[loops[l].ch] > 0
    /\ loops' = [loops EXCEPT ![l] = EndIteration(loops[l])]
    /\ UNCHANGED <<stopped, shuttingDown, syncCh, chBuf, chClosed, pc, seen, last,
                   backoff, panicked, hist>>

\* Line 103, open = true: a value is received from the channel (a closed
\* channel still yields the value buffered before the close).
LoopWakeSignal(l) ==
    /\ ~panicked
    /\ loops[l].pc = "wait"
    /\ chBuf[loops[l].ch] > 0
    /\ chBuf' = [chBuf EXCEPT ![loops[l].ch] = @ - 1]
    /\ loops' = [loops EXCEPT ![l] = EndIteration(loops[l])]
    /\ UNCHANGED <<stopped, shuttingDown, syncCh, chClosed, pc, seen, last,
                   backoff, panicked, hist>>

\* Lines 103-110, open = false: the channel is closed and drained; the
\* loop clears shuttingDown under the lock and returns.
LoopExit(l) ==
    /\ ~panicked
    /\ loops[l].pc = "wait"
    /\ chClosed[loops[l].ch]
    /\ chBuf[loops[l].ch] = 0
    /\ shuttingDown' = FALSE
    /\ loops' = [loops EXCEPT ![l] = [NoLoop EXCEPT !.pc = "done"]]
    /\ UNCHANGED <<stopped, syncCh, chBuf, chClosed, pc, seen, last,
                   backoff, panicked, hist>>

\* A select without its retry case: the timer never wakes the loop.
LoopRetryFireNever(l) ==
    /\ FALSE
    /\ UNCHANGED vars

\* Lines 111-113: the retry timer armed in this iteration fires.
LoopRetryFire(l) ==
    /\ ~panicked
    /\ loops[l].pc = "wait"
    /\ loops[l].retry
    /\ loops' = [loops EXCEPT ![l] = EndIteration(loops[l])]
    /\ nRetryFired' = nRetryFired + 1
    /\ UNCHANGED <<stopped, shuttingDown, syncCh, chBuf, chClosed, pc, seen, last,
                   backoff, panicked, nInvocations, nSyncCalls, nFailures, nArmed, owed>>

\* A step that continues a call already begun.
CallerContinue(p) ==
    \/ StartIsShuttingDown(p)
    \/ StartInit(p)
    \/ SyncSend(p)

\* A step of loop goroutine l.
LoopStep(l) ==
    \/ LoopCallSync(l)
    \/ LoopSyncReturn(l, TRUE)
    \/ LoopSyncReturn(l, FALSE)
    \/ LoopSelect(l)
    \/ LoopWakeSignal(l)
    \/ LoopExit(l)
    \/ LoopRetryFire(l)

Next ==
    \/ \E p \in Procs : StartIsStopped(p)
    \/ \E p \in Procs : StartIsShuttingDown(p)
    \/ \E p \in Procs : StartInit(p)
    \/ \E p \in Procs : Stop(p)
    \/ \E p \in Procs : SyncIsStopped(p)
    \/ \E p \in Procs : SyncSend(p)
    \/ \E l \in ChanIds : LoopCallSync(l)
    \/ \E l \in ChanIds : LoopSyncReturn(l, TRUE)
    \/ \E l \in ChanIds : LoopSyncReturn(l, FALSE)
    \/ \E l \in ChanIds : LoopSelect(l)
    \/ \E l \in ChanIds : LoopWakeSignal(l)
    \/ \E l \in ChanIds : LoopExit(l)
    \/ \E l \in ChanIds : LoopRetryFire(l)

Spec == Init /\ [][Next]_vars

\* Fair scheduling: every goroutine that can take a step eventually takes
\* one (a call of syncFunc returns, an armed timer fires, a caller inside
\* Start() or Sync() finishes its call).  Nothing obliges a caller to
\* begin a new call.
FairSpec ==
    /\ Init /\ [][Next]_vars
    /\ \A l \in ChanIds : WF_vars(LoopStep(l))
    /\ \A p \in Procs : WF_vars(CallerContinue(p))

\* The same program and scheduling, recording whether an enqueued signal
\* is still owed an invocation.
SignalFairSpec ==
    /\ SignalInit /\ [][Next]_vars
    /\ \A l \in ChanIds : WF_vars(LoopStep(l))
    /\ \A p \in Procs : WF_vars(CallerContinue(p))

\* ---------------------------------------------------------------------
\* The backoff handler on its own: a handler with any parameters in the
\* bounds, driven by the two calls the loop makes on it (lines 86 and 99)
\* in any order.
\* ---------------------------------------------------------------------
BackoffParams ==
    {NewBackoff(r, mn, mx) : r \in 1..MaxParamRetries,
                             mn \in 1..MaxParamDelay,
                             mx \in 1..MaxParamDelay}

BackoffInit ==
    /\ \E b \in BackoffParams : b.minDelay <= b.maxDelay /\ NewSyncer(b)
    /\ owed = "untracked"

\* Line 86: a failed sync asks for the next delay.
BackoffFail ==
    /\ backoff' = NextRetryDelay(backoff)
    /\ UNCHANGED <<stopped, shuttingDown, syncCh, chBuf, chClosed, loops, pc, seen,
                   last, panicked, hist>>

\* Line 99: a successful sync resets the handler.
BackoffSucceed ==
    /\ backoff' = ResetRetryDelay(backoff)
    /\ UNCHANGED <<stopped, shuttingDown, syncCh, chBuf, chClosed, loops, pc, seen,
                   last, panicked, hist>>

BackoffNext == BackoffFail \/ BackoffSucceed

BackoffSpec == BackoffInit /\ [][BackoffNext]_vars

TypeOK ==
    /\ stopped \in BOOLEAN /\ shuttingDown \in BOOLEAN /\ panicked \in BOOLEAN
    /\ syncCh \in 0..MaxStarts
    /\ \A c \in ChanIds : chBuf[c] \in 0..1 /\ chClosed[c] \in BOOLEAN
    /\ \A l \in ChanIds : loops[l].pc \in {"none", "call", "insync", "select", "wait", "done"}
    /\ \A p \in Procs : pc[p] \in {"idle", "StartShut", "StartInit", "SyncSend"}
    /\ backoff.count \in 0..backoff.maxRetries
    /\ nArmed <= nFailures /\ nFailures <= MaxFailures
    /\ owed \in {"untracked", "no", "yes"}

\* ---------------------------------------------------------------------
\* Vocabulary of the properties.
\* ---------------------------------------------------------------------

\* Loop goroutines that have been spawned and have not returned.
LiveLoops == {l \in ChanIds : loops[l].pc \in {"call", "insync", "select", "wait"}}

\* Loop goroutines inside a call of s.syncFunc.
InSync == {l \in ChanIds : loops[l].pc = "insync"}

\* The lifecycle states of the syncer.
Idle == stopped /\ ~shuttingDown
Running == ~stopped
Stopping == stopped /\ shuttingDown

\* This step is the return of a Stop() call.
StopReturns == last'[1] = "Stop" /\ last' # last

\* This step is a Sync() call that returns from its IsStopped() check.
SyncReturnsAtCheck == last'[1] = "Sync" /\ last' # last /\ pc' = pc

\* This step is caller p's send attempt in Sync().
SyncSends(p) == pc[p] = "SyncSend" /\ pc'[p] = "idle"

\* ---------------------------------------------------------------------
\* C1.  At most one invocation of the sync function is in progress at any
\* time, whatever the interleaving of Start(), Stop() and Sync() callers.
\* ---------------------------------------------------------------------
C1_OneSyncAtATime == Cardinality(InSync) <= 1

\* ---------------------------------------------------------------------
\* C2.  At most one loop goroutine exists at any time, and a loop is
\* spawned only by a step that moves stopped from true to false.
\* ---------------------------------------------------------------------
C2_OneLoop ==
    /\ [](Cardinality(LiveLoops) <= 1)
    /\ [][(\E l \in ChanIds : loops[l].pc = "none" /\ loops'[l].pc # "none")
            => (stopped /\ ~stopped')]_vars

\* ---------------------------------------------------------------------
\* C3.  shuttingDown=true implies stopped=true in every reachable state.
\* ---------------------------------------------------------------------
C3_ShuttingDownImpliesStopped == shuttingDown => stopped

\* ---------------------------------------------------------------------
\* C4.  Start() returns the already-running error only from Running and
\* the shutting-down error only while shuttingDown, both without changing
\* the flags, the channel or the loops; Start() succeeds only from Idle,
\* so that it succeeds once until the syncer is Idle again.
\* ---------------------------------------------------------------------
C4_StartOutcome ==
    [][/\ (last' = <<"Start", "errRunning">> /\ last' # last)
            => (Running /\ UNCHANGED <<stopped, shuttingDown, syncCh, chBuf, chClosed, loops>>)
       /\ (last' = <<"Start", "errShuttingDown">> /\ last' # last)
            => (shuttingDown /\ UNCHANGED <<stopped, shuttingDown, syncCh, chBuf, chClosed, loops>>)
       /\ (\A p \in Procs : pc[p] = "idle" /\ pc'[p] = "StartShut" => ~Running)
       /\ (\A p \in Procs : pc[p] = "StartInit" /\ pc'[p] = "idle"
              => (Idle /\ last' = <<"Start", "ok">>))]_vars

\* ---------------------------------------------------------------------
\* C5.  Stop() is idempotent: every Stop() leaves stopped=true, and a
\* Stop() called when stopped=true changes neither flag, nor any channel,
\* nor any loop, so a second Stop() adds nothing to the first.
\* ---------------------------------------------------------------------
C5_StopIdempotent ==
    [][StopReturns =>
          /\ stopped'
          /\ (stopped => /\ last' = <<"Stop", "noop">>
                         /\ UNCHANGED <<stopped, shuttingDown, syncCh, chBuf, chClosed,
                                        loops, pc, seen, backoff, panicked, hist>>)]_vars

\* A second Stop() returned while the loop had not yet observed the first.
C5_Witness ==
    /\ last = <<"Stop", "noop">>
    /\ Stopping
    /\ syncCh # NoChan /\ chClosed[syncCh]
    /\ LiveLoops # {}

\* ---------------------------------------------------------------------
\* C6.  After a Stop() has returned, under fair scheduling and with
\* terminating sync-function calls, the syncer eventually is stopped and
\* not shutting down.  (A program that has aborted is left aside here.)
\* ---------------------------------------------------------------------
C6_StopReachesIdle == (last[1] = "Stop") ~> (Idle \/ panicked)

\* ---------------------------------------------------------------------
\* C7.  No loop goroutine is leaked: once the syncer is stopped and no
\* Start() is in progress, every loop that was spawned eventually
\* returns, unless a later Start() makes the syncer run again.
\* ---------------------------------------------------------------------
C7_NoLoopLeak ==
    (stopped /\ StartsInFlight = {}) ~> (LiveLoops = {} \/ ~stopped \/ panicked)

\* ---------------------------------------------------------------------
\* C8.  While the syncer is running (no Stop() between the call's check
\* and its send), Sync() does not block: it returns true exactly when the
\* buffer of the signal channel was empty, and the signal is then
\* enqueued; it returns false exactly when a signal was already pending,
\* and nothing is enqueued.  No channel ever holds more than one pending
\* signal.
\* ---------------------------------------------------------------------

\* No Stop() has run since caller p's IsStopped(): a Stop() would have
\* closed the channel that was current when it ran.
NoStopSinceCheck(p) == \A c \in seen[p]..syncCh : ~chClosed[c]

C8_SyncCoalesces ==
    /\ [](\A c \in ChanIds : chBuf[c] <= 1)
    /\ [][\A p \in Procs :
            (SyncSends(p) /\ NoStopSinceCheck(p)) =>
               /\ Running
               /\ ~panicked'
               /\ \E c \in seen[p]..syncCh :
                     \/ /\ chBuf[c] = 0
                        /\ last' = <<"Sync", "true">>
                        /\ chBuf' = [chBuf EXCEPT ![c] = 1]
                     \/ /\ chBuf[c] > 0
                        /\ last' = <<"Sync", "false">>
                        /\ chBuf' = chBuf
               /\ (seen[p] = syncCh => (last' = <<"Sync", "true">> <=> chBuf[syncCh] = 0))]_vars

\* A Sync() found the signal of an earlier Sync() still pending.
C8_Witness ==
    /\ last = <<"Sync", "false">>
    /\ Running
    /\ nSyncCalls = 2
    /\ chBuf[syncCh] = 1
    /\ \A p \in Procs : pc[p] = "idle"

\* ---------------------------------------------------------------------
\* C9 as claimed.  After one Start(), the number of sync-function
\* invocations is at least 1 and at most the number of Sync() calls made
\* while running, plus 1.
\* ---------------------------------------------------------------------
C9_InvocationBound ==
    syncCh = 1 =>
       /\ nInvocations <= nSyncCalls + 1
       /\ (loops[1].pc \in {"insync", "select", "wait", "done"} => nInvocations >= 1)

\* ---------------------------------------------------------------------
\* C9 as amended.  The number of sync-function invocations is at least 1
\* once a loop is past its first call, and at most the number of Sync()
\* calls made while running, plus the number of wake-ups by the retry
\* timer, plus 1 for each successful Start().
\* ---------------------------------------------------------------------
C9_InvocationBoundWithRetries ==
    /\ nInvocations <= nSyncCalls + nRetryFired + syncCh
    /\ \A l \in ChanIds : loops[l].pc \in {"insync", "select", "wait", "done"} => nInvocations >= 1

\* One Start(), and every Sync() call and every retry was turned into an
\* invocation: the bound is met.
C9_Witness ==
    /\ syncCh = 1
    /\ nSyncCalls >= 1
    /\ nRetryFired >= 1
    /\ nInvocations = nSyncCalls + nRetryFired + 1

\* ---------------------------------------------------------------------
\* C10.  Sync() called when the syncer is stopped (Idle or Stopping)
\* returns false from its check and changes nothing: no caller goes on to
\* the send, no flag, channel, loop or counter changes.  On a syncer that
\* was never started the sync function has not been invoked.
\* ---------------------------------------------------------------------
C10_SyncWhenStopped ==
    /\ [](syncCh = NoChan => nInvocations = 0)
    /\ [][stopped =>
            /\ \A p \in Procs : pc[p] = "idle" => pc'[p] # "SyncSend"
            /\ SyncReturnsAtCheck =>
                  /\ last' = <<"Sync", "false">>
                  /\ UNCHANGED <<stopped, shuttingDown, syncCh, chBuf, chClosed,
                                 loops, pc, seen, backoff, panicked, hist>>]_vars

\* Sync() returned false while the syncer was shutting down, and no Sync()
\* ever got past its check.
C10_Witness ==
    /\ last = <<"Sync", "false">>
    /\ Stopping
    /\ nSyncCalls = 0
    /\ \A c \in ChanIds : chBuf[c] = 0

\* ---------------------------------------------------------------------
\* C11.  A signal is never lost: under fair scheduling, once a Sync() has
\* returned true (its signal is enqueued), a call of the sync function
\* begins afterwards, by whichever loop and whichever of the signal and
\* the retry timer ends its wait.  (A program that has aborted is left
\* aside here.)
\* ---------------------------------------------------------------------
C11_SignalNotLost == (owed = "yes") ~> (owed = "no" \/ panicked)

\* ---------------------------------------------------------------------
\* C12.  Stop() does not touch the loop, and takes effect at the loop's
\* next wait: a loop whose select waits on a closed channel leaves the
\* wait only by returning, never towards another sync-function call.
\* ---------------------------------------------------------------------
C12_StopAtNextWait ==
    [][/\ StopReturns => loops' = loops
       /\ \A l \in ChanIds :
            (loops[l].pc = "wait" /\ chClosed[loops[l].ch])
               => loops'[l].pc \in {"wait", "done"}]_vars

\* ---------------------------------------------------------------------
\* C13.  For a backoff handler with any parameters: the attempt count
\* never exceeds the maximum retry count; every delay returned is at
\* least the minimum delay, at most the maximum delay, and not smaller
\* than the delay returned before it; the first delay after construction
\* or a reset is the minimum delay; exhaustion is reported only by a call
\* made after the maximum number of delays, and that call leaves the count
\* as it is.
\* ---------------------------------------------------------------------
C13_BackoffDelays ==
    /\ [](backoff.count <= backoff.maxRetries)
    /\ [][/\ backoff'.count \in {backoff.count, backoff.count + 1, 0}
          /\ backoff'.count = backoff.count + 1 =>
                /\ ~backoff'.exceeded
                /\ backoff'.delay >= backoff.delay
                /\ backoff'.delay >= backoff.minDelay
                /\ backoff'.delay <= backoff.maxDelay
                /\ (backoff.count = 0 => backoff'.delay = backoff.minDelay)
          /\ (backoff'.exceeded /\ ~backoff.exceeded) =>
                /\ backoff.count = backoff.maxRetries
                /\ backoff'.count = backoff.count
          /\ (backoff.count = backoff.maxRetries /\ backoff'.count # 0) =>
                backoff'.count = backoff.count
          /\ (backoff'.count = 0 /\ backoff.count # 0) =>
                (backoff'.delay = 0 /\ ~backoff'.exceeded)]_vars

\* Three delays were returned, the last one clamped to the maximum and
\* larger than the first, and the fourth call reported exhaustion.
C13_Witness ==
    /\ backoff.maxRetries = 3
    /\ backoff.count = 3
    /\ backoff.exceeded
    /\ backoff.delay = backoff.maxDelay
    /\ backoff.minDelay * 4 > backoff.maxDelay
    /\ backoff.minDelay < backoff.maxDelay

\* ---------------------------------------------------------------------
\* C14.  A loop that waits after a failed sync that found the retries
\* exhausted has no retry timer armed; it leaves the wait towards another
\* sync-function call only by taking a signal off its channel, and
\* otherwise only by returning on a closed channel; signals are put into
\* a channel by Sync() alone; and under fair scheduling the loop does not
\* stay in that wait with a signal pending on its channel: the signal
\* ends the wait (or is taken by another loop).
\* ---------------------------------------------------------------------
ExhaustedWait(l) == loops[l].pc = "wait" /\ loops[l].exh

C14_ExhaustedWaitsForSignal ==
    /\ [][/\ \A l \in ChanIds : ExhaustedWait(l) =>
               /\ ~loops[l].retry
               /\ loops'[l].pc \in {"wait", "call", "done"}
               /\ loops'[l].pc = "call" =>
                     /\ chBuf[loops[l].ch] > 0
                     /\ chBuf'[loops[l].ch] = chBuf[loops[l].ch] - 1
               /\ loops'[l].pc = "done" => chClosed[loops[l].ch]
          /\ \A c \in ChanIds : chBuf'[c] > chBuf[c] => \E p \in Procs : SyncSends(p)]_vars
    /\ \A l \in ChanIds :
         []<>(~(ExhaustedWait(l) /\ chBuf[loops[l].ch] > 0) \/ panicked)

\* One Start(): the first sync failed and was retried by the timer, the
\* retry failed with the retries exhausted, and a third call has begun,
\* which only a Sync() signal can have caused.
C14_Witness ==
    /\ syncCh = 1
    /\ loops[1].pc = "insync"
    /\ backoff.exceeded
    /\ nFailures = maxRetries + 1
    /\ nRetryFired = maxRetries
    /\ nInvocations = maxRetries + 2

\* ---------------------------------------------------------------------
\* C15.  A loop that waits after a failed sync with retries remaining has
\* its retry timer armed; when the timer ends the wait the loop goes on to
\* call the sync function and no signal is taken; and under fair
\* scheduling the loop does not stay in that wait, nor before the call:
\* with no Sync() and no Stop() it is the timer that brings the next
\* invocation.
\* ---------------------------------------------------------------------
RetryWait(l) == loops[l].pc = "wait" /\ loops[l].err /\ ~loops[l].exh

C15_RetryFires ==
    /\ [][\A l \in ChanIds : RetryWait(l) =>
             /\ loops[l].retry
             /\ (loops'[l].pc = "call" /\ chBuf' = chBuf) =>
                   (nRetryFired' = nRetryFired + 1 /\ nSyncCalls' = nSyncCalls)
             /\ loops'[l].pc = "done" => chClosed[loops[l].ch]]_vars
    /\ \A l \in ChanIds :
         []<>(~(RetryWait(l) \/ loops[l].pc = "call") \/ panicked)

\* With no Sync() call at all and the syncer still running, a second
\* invocation is in progress after the first one failed.
C15_Witness ==
    /\ syncCh = 1
    /\ Running
    /\ nSyncCalls = 0
    /\ nFailures = 1
    /\ nRetryFired = 1
    /\ nInvocations = 2
    /\ loops[1].pc = "insync"

\* ---------------------------------------------------------------------
\* C16.  The backoff handler changes only when a loop handles the result
\* of a sync-function call: a failed sync advances the attempt count by
\* one NextRetryDelay() call (by 1, or not at all once the maximum retry
\* count is reached), a successful sync resets it to 0.  Start(), Stop(),
\* Sync() and the loop's exit leave it unchanged, so the count of one
\* Start/Stop run is still there in the next.
\* ---------------------------------------------------------------------

\* This step is loop l handling the result of its sync-function call.
SyncReturns(l) == loops[l].pc = "insync" /\ loops'[l].pc = "select"

C16_BackoffOnlyInLoop ==
    [][/\ backoff' # backoff => \E l \in ChanIds : SyncReturns(l)
       /\ \A l \in ChanIds : SyncReturns(l) =>
            IF loops'[l].err
              THEN retryCount' = IF retryCount < backoff.maxRetries
                                   THEN retryCount + 1 ELSE retryCount
              ELSE retryCount' = 0]_vars

\* The first run ended with one failure counted; the loop of the second
\* run has not called the sync function yet and the count is still 1.
C16_Witness ==
    /\ syncCh = 2
    /\ loops[1].pc = "done"
    /\ loops[2].pc = "call"
    /\ Running
    /\ retryCount = 1
    /\ nInvocations = 1

\* ---------------------------------------------------------------------
\* C17.  When a loop handles a failed sync and the owning service is
\* found, one warning event is recorded, with the message "(will retry)"
\* exactly when the retry timer was armed in this iteration and "(will not
\* retry)" exactly when the backoff reported exhaustion; when the service
\* is not found no event is recorded and the loop goes to its wait all the
\* same; a successful sync records no event.
\* ---------------------------------------------------------------------
C17_EventPerFailure ==
    [][\A l \in ChanIds :
        /\ loops[l].pc = "select" =>
              /\ loops'[l].pc \in {"select", "wait"}
              /\ loops'[l].ev = loops[l].ev
              /\ loops'[l].msg = loops[l].msg
        /\ SyncReturns(l) =>
             /\ loops'[l].err =>
                   /\ loops'[l].ev <=> loops'[l].svc
                   /\ loops'[l].exh <=> backoff'.exceeded
                   /\ loops'[l].retry <=> ~loops'[l].exh
                   /\ nArmed' = IF loops'[l].retry THEN nArmed + 1 ELSE nArmed
                   /\ loops'[l].msg = "(will retry)" <=> loops'[l].retry
                   /\ loops'[l].msg = "(will not retry)" <=> loops'[l].exh
             /\ ~loops'[l].err =>
                   /\ ~loops'[l].ev
                   /\ ~loops'[l].retry
                   /\ nArmed' = nArmed]_vars

\* A loop waits after a failure that found the retries exhausted, and its
\* event for the service, marked "(will not retry)", has been recorded.
C17_Witness ==
    \E l \in ChanIds :
        /\ loops[l].pc = "wait"
        /\ loops[l].err /\ loops[l].exh /\ loops[l].svc /\ loops[l].ev
        /\ ~loops[l].retry
        /\ loops[l].msg = "(will not retry)"

\* ---------------------------------------------------------------------
\* C18.  Whatever the interleaving of a Sync() call with a concurrent
\* Stop() call, the send attempt of Sync() never meets a closed channel
\* (a send on a closed channel aborts the program).
\* ---------------------------------------------------------------------
C18_SyncNeverSendsOnClosed ==
    [][\A p \in Procs : SyncSends(p) => ~panicked']_vars

\* ---------------------------------------------------------------------
\* C19.  Stop() never closes a nil or an already closed channel: while the
\* syncer is not stopped s.syncCh names an open channel, a Stop() that
\* finds the syncer running closes exactly that channel and does not
\* abort, a closed channel stays closed (each is closed at most once), and
\* as long as no Start() has made a channel nothing is closed.
\* ---------------------------------------------------------------------

\* This step is a Stop() call that finds the syncer running.
StopCloses == ~stopped /\ stopped'

C19_StopClosesOnce ==
    /\ [](~stopped => (syncCh # NoChan /\ ~chClosed[syncCh]))
    /\ [](syncCh = NoChan => \A c \in ChanIds : ~chClosed[c])
    /\ [][/\ StopCloses =>
               /\ panicked' = panicked
               /\ chClosed' = [chClosed EXCEPT ![syncCh] = TRUE]
          /\ StopReturns => panicked' = panicked
          /\ \A c \in ChanIds : chClosed[c] => chClosed'[c]
          /\ chClosed' # chClosed => StopCloses]_vars

\* The syncer was started and stopped twice: both channels are closed,
\* the last call was a Stop() that closed one, and nothing has aborted.
C19_Witness ==
    /\ chClosed[1] /\ chClosed[2]
    /\ stopped
    /\ last = <<"Stop", "closed">>
    /\ ~panicked

\* ---------------------------------------------------------------------
\* C20.  A retry timer wakes the loop only in the wait of the iteration
\* that armed it: a loop is woken by the timer only from a wait that
\* follows a failed sync with retries remaining, no timer is live inside
\* a call of the sync function, and the number of wake-ups by the timer
\* never exceeds the number of failed syncs that armed one.
\* ---------------------------------------------------------------------

\* This step is loop l woken by its retry timer.
RetryWakes(l) ==
    /\ loops[l].pc = "wait" /\ loops'[l].pc = "call"
    /\ nRetryFired' = nRetryFired + 1

C20_NoStaleTimer ==
    /\ [](nRetryFired <= nArmed)
    /\ [](\A l \in ChanIds :
            /\ loops[l].pc = "insync" => ~loops[l].retry
            /\ (loops[l].pc \in {"select", "wait"} /\ loops[l].retry) =>
                  (loops[l].err /\ ~loops[l].exh))
    /\ [][\A l \in ChanIds : RetryWakes(l) =>
             (loops[l].retry /\ loops[l].err /\ ~loops[l].exh)]_vars

\* One loop: its first sync failed and armed the timer, a signal woke it
\* before the timer, the second sync succeeded, and the loop now waits
\* with no timer although the first one never fired.
C20_Witness ==
    /\ syncCh = 1 /\ loops[1].pc = "wait"
    /\ ~loops[1].err /\ ~loops[1].retry
    /\ nInvocations = 2 /\ nFailures = 1
    /\ nArmed = 1 /\ nRetryFired = 0
====
